---- MODULE Spec2Model ----
(***************************************************************************)
(* Model of edit_s3_file (src/src/lib.rs): modify(key, Part) rewrites a    *)
(* byte range of an existing S3 object through one multipart upload whose  *)
(* parts are server-side copies of the unmodified spans plus one uploaded  *)
(* part carrying the caller's bytes.                                       *)
(*                                                                         *)
(* Byte strings are modelled as sequences of extents <<src, s, e>>: the    *)
(* bytes [s, e) of the source src ("orig" is the object as it was before   *)
(* any call, "data1"/"data2" the buffer handed to call 1/2).  Every byte   *)
(* of every source is a distinct symbol, so two byte strings are equal for *)
(* every possible content exactly when their normal forms are equal.       *)
(***************************************************************************)
EXTENDS Integers, Sequences, FiniteSets, TLC

\* ------------------------------------------------------------------------
\* Bounds of the model
\* ------------------------------------------------------------------------
\* object lengths, indexes and payload lengths lie within MaxDelta of a
\* multiple of PART_SIZE
MaxDelta == 1

\* ------------------------------------------------------------------------
\* Program constants and machine integers
\*
\* TLC computes with 32-bit integers.  Every length and position of the model
\* is therefore counted in units of two bytes (the unit that keeps the
\* 3000000000-byte object of the specification's scenario below 2^31), and
\* the machine integer of the model is the 32-bit signed integer in place of
\* the program's i64.  The program only adds, compares and takes minima, so
\* its runs on even byte counts are exactly the runs of the model.
\* ------------------------------------------------------------------------
\* const PART_SIZE: i64 = 1024 * 1024 * 1024 bytes
PART_SIZE == (1024 * 1024 * 1024) \div 2

\* largest and smallest machine integer
INT_MAX == 2147483647
INT_MIN == (0 - INT_MAX) - 1

\* a + b does not fit the machine integer
AddOverflows(a, b) ==
    \/ b > 0 /\ a > INT_MAX - b
    \/ b < 0 /\ a < INT_MIN - b

\* a + b reduced modulo 2^32 into the machine integer (wrapping_add)
WrapAdd(a, b) ==
    IF b > 0 /\ a > INT_MAX - b THEN ((a - INT_MAX) + (b - 1)) + INT_MIN
    ELSE IF b < 0 /\ a < INT_MIN - b THEN ((a - INT_MIN) + (b + 1)) + INT_MAX
    ELSE a + b

Min(a, b) == IF a < b THEN a ELSE b

\* ------------------------------------------------------------------------
\* Byte strings as extent lists
\* ------------------------------------------------------------------------
RECURSIVE ContentLen(_)
ContentLen(c) ==
    IF c = <<>> THEN 0
    ELSE (Head(c)[3] - Head(c)[2]) + ContentLen(Tail(c))

\* the bytes at positions [a, b) of c (0 <= a)
RECURSIVE Slice(_, _, _)
Slice(c, a, b) ==
    IF c = <<>> \/ b <= a THEN <<>>
    ELSE LET h == Head(c)
             n == h[3] - h[2]
         IN  IF a >= n THEN Slice(Tail(c), a - n, b - n)
             ELSE << <<h[1], h[2] + a, h[2] + Min(b, n)>> >>
                      \o Slice(Tail(c), 0, b - n)

\* normal form: adjacent extents of one source that continue each other merge
RECURSIVE Norm(_)
Norm(c) ==
    IF Len(c) < 2 THEN c
    ELSE LET r == Norm(Tail(c))
             h == Head(c)
             g == Head(r)
         IN  IF h[1] = g[1] /\ h[3] = g[2]
             THEN << <<h[1], h[2], g[3]>> >> \o Tail(r)
             ELSE <<h>> \o r

Bytes(src, n) == IF n <= 0 THEN <<>> ELSE << <<src, 0, n>> >>

\* ------------------------------------------------------------------------
\* Calls and their inputs
\* ------------------------------------------------------------------------
Procs == {1, 2}

DataSrc(p) == IF p = 1 THEN "data1" ELSE "data2"

\* the lengths within MaxDelta of the multiples 0..j of PART_SIZE
Grid(j) == {s \in {m * PART_SIZE + d : m \in 0..j, d \in (0 - MaxDelta)..MaxDelta} : s >= 0}

\* <<object length, index, payload length>> of the specification's scenarios
\* (3000000000, 1500000000, 10 bytes and 5, 0, 5 units)
Scenarios == {<<1500000000, 750000000, 5>>, <<5, 0, 5>>}

\* lengths of the object stored at the key before the call: up to two full
\* parts and a remainder, which keeps offset + PART_SIZE and index + length
\* of every in-memory payload within the machine integer of the model, as the
\* sizes a store and a memory can hold keep them within i64
ObjLens == Grid(2)

\* Part::new accepts every machine integer as index
Indexes == Grid(2) \cup {-1, INT_MAX}

\* payload lengths (Vec<u8>::len() as i64): empty up to more than one part
DataLens == Grid(1)

Inputs == (ObjLens \X Indexes \X DataLens) \cup Scenarios

\* ------------------------------------------------------------------------
\* Pure steps of modify
\* ------------------------------------------------------------------------
\* ensure!(modify_part.index + modify_part_len <= obj_len), the sum as the
\* machine computes it when it does not trap
WindowCheck(index, len, olen) == WrapAdd(index, len) <= olen

\* variant: the end of the payload taken one short
UploadEndShort(index, len) == WrapAdd(index, len) - 1

\* end = modify_part.index + modify_part_len
UploadEnd(index, len) == WrapAdd(index, len)

\* variant: the span is not clamped to the object length
CopyEndNoMin(off, olen, index) ==
    LET e == WrapAdd(off, PART_SIZE)
    IN  IF index > off /\ index < e THEN index ELSE e

\* variant: the span is not capped at PART_SIZE
CopyEndNoCap(off, olen, index) ==
    IF index > off /\ index < olen THEN index ELSE olen

\* variant: the span is not cut back to the index
CopyEndNoShrink(off, olen, index) == Min(WrapAdd(off, PART_SIZE), olen)

\* end = min(offset + PART_SIZE, obj_len), cut back to the index when the
\* index lies strictly inside (offset, end)
CopyEnd(off, olen, index) ==
    LET e == Min(WrapAdd(off, PART_SIZE), olen)
    IN  IF index > off /\ index < e THEN index ELSE e

\* variant: the exclusive end is sent as the inclusive last position
CopySourceRangeExclusive(off, e) == <<off, e>>

\* format!("bytes={}-{}", offset, end - 1): first and last position, inclusive
CopySourceRange(off, e) == <<off, e - 1>>

\* variant: the parts are numbered by the bare position, from 0
CompletedPartsFromZero(tags) ==
    [i \in 1..Len(tags) |-> [part_number |-> i - 1, e_tag |-> tags[i]]]

\* etags.into_iter().enumerate().map(|(i, e_tag)| part_number(i + 1).e_tag(e_tag))
CompletedParts(tags) ==
    [i \in 1..Len(tags) |-> [part_number |-> i, e_tag |-> tags[i]]]

\* ------------------------------------------------------------------------
\* The object store (S3 multipart protocol)
\* ------------------------------------------------------------------------
\* what a store call can answer: success, a failed request, success with the
\* expected field absent, success with the copy result absent
Outcomes == {"ok", "err", "none"}
CopyOutcomes == {"ok", "err", "none", "no_result"}

\* the tag the store assigns to part pn of upload uid
ETag(uid, pn) == <<uid, pn>>

\* the store accepts a completion whose parts are listed in ascending part
\* number and carry the tags it assigned
ValidCompletion(up, ps) ==
    /\ \A i \in 1..Len(ps) :
           /\ ps[i].part_number \in DOMAIN up.parts
           /\ up.parts[ps[i].part_number].e_tag = ps[i].e_tag
    /\ \A i \in 1..(Len(ps) - 1) : ps[i].part_number < ps[i + 1].part_number

\* the object a completion builds: the listed parts' bytes in list order
RECURSIVE Assemble(_, _)
Assemble(up, ps) ==
    IF ps = <<>> THEN <<>>
    ELSE up.parts[Head(ps).part_number].data \o Assemble(up, Tail(ps))

\* ------------------------------------------------------------------------
\* State
\* ------------------------------------------------------------------------
VARIABLES
    CLIENT,           \* the OnceLock cell: "unset" or the configuration it holds
    loads,            \* the outcomes of the configuration loads so far, in order
    overflow_checks,  \* build profile: integer overflow traps (TRUE) or wraps
    object,           \* store: the bytes of the object at the key
    original,         \* the bytes of the object before any call
    uploads,          \* store: the multipart uploads, by upload id
    pc,               \* per call: position in modify
    result,           \* per call: what modify returned
    modify_part,      \* per call: the Part argument [index, data]
    obj_len,          \* per call: local obj_len
    modify_part_len,  \* per call: local modify_part_len
    upload_id,        \* per call: local upload_id
    part_num,         \* per call: local part_num
    offset,           \* per call: local offset
    end,              \* per call: local end of the current iteration
    etags,            \* per call: local etags
    client,           \* per call: the (bucket, client) the cell handed out
    inflight,         \* per call: the requests sent and not yet answered
    log,              \* per call: the store calls issued so far, in order
    answers           \* per call: the answers received so far, in order

storeVars == <<object, original, uploads>>
buildVars == <<CLIENT, overflow_checks, loads>>
localVars == <<modify_part, obj_len, modify_part_len, upload_id, part_num,
               offset, end, etags, client>>
vars == <<CLIENT, overflow_checks, loads, object, original, uploads, pc,
          result, modify_part, obj_len, modify_part_len, upload_id, part_num,
          offset, end, etags, client, inflight, log, answers>>

None == [is_some |-> FALSE, len |-> 0]
Some(n) == [is_some |-> TRUE, len |-> n]

\* a request to the store
Req(op, uid, pn, first, last, body, ps) ==
    [op |-> op, upload_id |-> uid, part_number |-> pn, first |-> first,
     last |-> last, body |-> body, parts |-> ps]

\* an entry of the log: the call; for a part operation its part number, the
\* range [start, end) of the final object it stands for and the bytes sent;
\* for the completion the part list sent
Entry(op, pn, s, e, body) ==
    [op |-> op, part_number |-> pn, start |-> s, end |-> e, body |-> body]

\* Part::new(index, data) handed to modify by each call of the set active
InitCalls(active, in, oc) ==
    /\ CLIENT = "unset"
    /\ loads = <<>>
    /\ overflow_checks = oc
    /\ object = Bytes("orig", in[1])
    /\ original = Bytes("orig", in[1])
    /\ uploads = <<>>
    /\ pc = [p \in Procs |-> IF p \in active THEN "call" ELSE "idle"]
    /\ result = [p \in Procs |-> "none"]
    /\ modify_part = [p \in Procs |-> [index |-> in[2], data |-> Some(in[3])]]
    /\ obj_len = [p \in Procs |-> 0]
    /\ modify_part_len = [p \in Procs |-> 0]
    /\ upload_id = [p \in Procs |-> 0]
    /\ part_num = [p \in Procs |-> 1]
    /\ offset = [p \in Procs |-> 0]
    /\ end = [p \in Procs |-> 0]
    /\ etags = [p \in Procs |-> <<>>]
    /\ inflight = [p \in Procs |-> {}]
    /\ log = [p \in Procs |-> <<>>]
    /\ answers = [p \in Procs |-> <<>>]
    /\ client = [p \in Procs |-> "unset"]

Init == \E in \in Inputs, oc \in BOOLEAN : InitCalls({1}, in, oc)

\* ------------------------------------------------------------------------
\* modify, step by step
\* ------------------------------------------------------------------------
\* modify returns r at call p (Ok or the error `?` propagates)
Return(p, r) ==
    /\ pc' = [pc EXCEPT ![p] = "returned"]
    /\ result' = [result EXCEPT ![p] = r]

\* the configurations the file named by S3_STORE_CONFIG can hold at a load
Configs == {"config_a", "config_b"}

\* variant: the client is built from the configuration on every call and
\* stored again (no once-cell)
GetOrTryInitEveryCall(p) ==
    /\ pc[p] = "call"
    /\ \E cfg \in Configs \cup {"unreadable"} :
           IF cfg # "unreadable"
           THEN /\ CLIENT' = cfg
                /\ loads' = Append(loads, "ok")
                /\ client' = [client EXCEPT ![p] = cfg]
                /\ pc' = [pc EXCEPT ![p] = "get_object"]
                /\ UNCHANGED result
           ELSE /\ Return(p, "ConfigLoad")
                /\ loads' = Append(loads, "failed")
                /\ UNCHANGED <<CLIENT, client>>
    /\ UNCHANGED <<overflow_checks, storeVars, modify_part, obj_len,
                   modify_part_len, upload_id, part_num, offset, end, etags,
                   inflight, log, answers>>

\* CLIENT.get_or_try_init(...)?: the cell is read when set; otherwise the
\* configuration is loaded under the cell's lock and, only when that
\* succeeds, the cell is written; a failed load returns its error
GetOrTryInit(p) ==
    /\ pc[p] = "call"
    /\ \E cfg \in Configs \cup {"unreadable"} :
           IF CLIENT # "unset"
           THEN /\ client' = [client EXCEPT ![p] = CLIENT]
                /\ pc' = [pc EXCEPT ![p] = "get_object"]
                /\ UNCHANGED <<CLIENT, loads, result>>
           ELSE IF cfg # "unreadable"
           THEN /\ CLIENT' = cfg
                /\ loads' = Append(loads, "ok")
                /\ client' = [client EXCEPT ![p] = cfg]
                /\ pc' = [pc EXCEPT ![p] = "get_object"]
                /\ UNCHANGED result
           ELSE /\ Return(p, "ConfigLoad")
                /\ loads' = Append(loads, "failed")
                /\ UNCHANGED <<CLIENT, client>>
    /\ UNCHANGED <<overflow_checks, storeVars, modify_part, obj_len,
                   modify_part_len, upload_id, part_num, offset, end, etags,
                   inflight, log, answers>>

\* client.get_object().bucket(bucket).key(key).send()
SendGetObject(p) ==
    /\ pc[p] = "get_object"
    /\ pc' = [pc EXCEPT ![p] = "get_object_wait"]
    /\ inflight' = [inflight EXCEPT
           ![p] = @ \cup {Req("GetObject", 0, 0, 0, 0, <<>>, <<>>)}]
    /\ log' = [log EXCEPT ![p] = Append(@, Entry("GetObject", 0, 0, 0, <<>>))]
    /\ UNCHANGED <<buildVars, storeVars, localVars, result, answers>>

\* .await?, content_length().ok_or_else(..)?, the payload length and the
\* ensure! on the window
RecvGetObject(p) ==
    /\ pc[p] = "get_object_wait"
    /\ \E rq \in inflight[p], out \in Outcomes :
         LET olen  == ContentLen(object)
             index == modify_part[p].index
             len   == modify_part[p].data.len
         IN
           /\ rq.op = "GetObject"
           /\ inflight' = [inflight EXCEPT ![p] = @ \ {rq}]
           /\ answers' = [answers EXCEPT ![p] = Append(@, out)]
           /\ IF out = "err" THEN
                  /\ Return(p, "StoreRequestFailed")
                  /\ UNCHANGED <<obj_len, modify_part_len>>
              ELSE IF out = "none" THEN
                  /\ Return(p, "ContentLengthEmpty")
                  /\ UNCHANGED <<obj_len, modify_part_len>>
              ELSE
                  /\ obj_len' = [obj_len EXCEPT ![p] = olen]
                  /\ modify_part_len' = [modify_part_len EXCEPT ![p] = len]
                  /\ IF overflow_checks /\ AddOverflows(index, len) THEN
                         /\ pc' = [pc EXCEPT ![p] = "panicked"]
                         /\ UNCHANGED result
                     ELSE IF ~WindowCheck(index, len, olen) THEN
                         Return(p, "EnsureFailed")
                     ELSE
                         /\ pc' = [pc EXCEPT ![p] = "create"]
                         /\ UNCHANGED result
    /\ UNCHANGED <<buildVars, storeVars, modify_part, upload_id, part_num,
                   offset, end, etags, client, log>>

\* client.create_multipart_upload().bucket(bucket).key(key).send()
SendCreateMultipartUpload(p) ==
    /\ pc[p] = "create"
    /\ pc' = [pc EXCEPT ![p] = "create_wait"]
    /\ inflight' = [inflight EXCEPT
           ![p] = @ \cup {Req("CreateMultipartUpload", 0, 0, 0, 0, <<>>, <<>>)}]
    /\ log' = [log EXCEPT
           ![p] = Append(@, Entry("CreateMultipartUpload", 0, 0, 0, <<>>))]
    /\ UNCHANGED <<buildVars, storeVars, localVars, result, answers>>

\* .await?, upload_id().ok_or_else(..)?, then part_num = 1, offset = 0,
\* etags = Vec::new()
RecvCreateMultipartUpload(p) ==
    /\ pc[p] = "create_wait"
    /\ \E rq \in inflight[p], out \in Outcomes :
           /\ rq.op = "CreateMultipartUpload"
           /\ inflight' = [inflight EXCEPT ![p] = @ \ {rq}]
           /\ answers' = [answers EXCEPT ![p] = Append(@, out)]
           /\ IF out = "err" THEN
                  /\ Return(p, "StoreRequestFailed")
                  /\ UNCHANGED <<uploads, upload_id, part_num, offset, etags>>
              ELSE
                  /\ uploads' = Append(uploads,
                         [parts |-> <<>>, state |-> "open", owner |-> p])
                  /\ IF out = "none" THEN
                         /\ Return(p, "MissingUploadId")
                         /\ UNCHANGED <<upload_id, part_num, offset, etags>>
                     ELSE
                         /\ upload_id' = [upload_id EXCEPT ![p] = Len(uploads) + 1]
                         /\ part_num' = [part_num EXCEPT ![p] = 1]
                         /\ offset' = [offset EXCEPT ![p] = 0]
                         /\ etags' = [etags EXCEPT ![p] = <<>>]
                         /\ pc' = [pc EXCEPT ![p] = "loop"]
                         /\ UNCHANGED result
    /\ UNCHANGED <<buildVars, object, original, modify_part, obj_len,
                   modify_part_len, end, client, log>>

\* while offset < obj_len, branch offset == modify_part.index: the end of the
\* payload, modify_part.data.take().unwrap() as the body, upload_part().send()
SendUploadPart(p) ==
    /\ pc[p] = "loop"
    /\ offset[p] < obj_len[p]
    /\ offset[p] = modify_part[p].index
    /\ IF \/ overflow_checks /\ AddOverflows(modify_part[p].index, modify_part_len[p])
          \/ ~modify_part[p].data.is_some
       THEN \* the addition traps, or unwrap() meets the None that take() left
            /\ pc' = [pc EXCEPT ![p] = "panicked"]
            /\ UNCHANGED <<end, modify_part, inflight, log>>
       ELSE LET e    == UploadEnd(modify_part[p].index, modify_part_len[p])
                body == Bytes(DataSrc(p), modify_part[p].data.len)
            IN  /\ end' = [end EXCEPT ![p] = e]
                /\ modify_part' = [modify_part EXCEPT ![p].data = None]
                /\ inflight' = [inflight EXCEPT ![p] = @ \cup
                       {Req("UploadPart", upload_id[p], part_num[p], 0, 0, body, <<>>)}]
                /\ log' = [log EXCEPT ![p] = Append(@,
                       Entry("UploadPart", part_num[p], offset[p], e, body))]
                /\ pc' = [pc EXCEPT ![p] = "upload_part_wait"]
    /\ UNCHANGED <<buildVars, storeVars, result, obj_len, modify_part_len,
                   upload_id, part_num, offset, etags, client, answers>>

\* variant: a missing tag is replaced by a default instead of ending the call
RecvUploadPartTagDefaulted(p) ==
    /\ pc[p] = "upload_part_wait"
    /\ \E rq \in inflight[p], out \in Outcomes :
           /\ rq.op = "UploadPart"
           /\ inflight' = [inflight EXCEPT ![p] = @ \ {rq}]
           /\ answers' = [answers EXCEPT ![p] = Append(@, out)]
           /\ IF out = "err" THEN
                  /\ Return(p, "StoreRequestFailed")
                  /\ UNCHANGED <<uploads, etags, offset, part_num>>
              ELSE
                  /\ uploads' = [uploads EXCEPT ![rq.upload_id].parts =
                         (rq.part_number :>
                              [e_tag |-> ETag(rq.upload_id, rq.part_number),
                               data |-> rq.body]) @@ @]
                  /\ etags' = [etags EXCEPT
                         ![p] = Append(@, ETag(rq.upload_id, rq.part_number))]
                  /\ offset' = [offset EXCEPT ![p] = end[p]]
                  /\ part_num' = [part_num EXCEPT ![p] = @ + 1]
                  /\ pc' = [pc EXCEPT ![p] = "loop"]
                  /\ UNCHANGED result
    /\ UNCHANGED <<buildVars, object, original, modify_part, obj_len,
                   modify_part_len, upload_id, end, client, log>>

\* .await?.e_tag.ok_or_else(..)?, etags.push(etag), offset = end, part_num += 1
RecvUploadPart(p) ==
    /\ pc[p] = "upload_part_wait"
    /\ \E rq \in inflight[p], out \in Outcomes :
           /\ rq.op = "UploadPart"
           /\ inflight' = [inflight EXCEPT ![p] = @ \ {rq}]
           /\ answers' = [answers EXCEPT ![p] = Append(@, out)]
           /\ IF out = "err" THEN
                  /\ Return(p, "StoreRequestFailed")
                  /\ UNCHANGED <<uploads, etags, offset, part_num>>
              ELSE
                  /\ uploads' = [uploads EXCEPT ![rq.upload_id].parts =
                         (rq.part_number :>
                              [e_tag |-> ETag(rq.upload_id, rq.part_number),
                               data |-> rq.body]) @@ @]
                  /\ IF out = "none" THEN
                         /\ Return(p, "MissingETag")
                         /\ UNCHANGED <<etags, offset, part_num>>
                     ELSE
                         /\ etags' = [etags EXCEPT
                                ![p] = Append(@, ETag(rq.upload_id, rq.part_number))]
                         /\ offset' = [offset EXCEPT ![p] = end[p]]
                         /\ part_num' = [part_num EXCEPT ![p] = @ + 1]
                         /\ pc' = [pc EXCEPT ![p] = "loop"]
                         /\ UNCHANGED result
    /\ UNCHANGED <<buildVars, object, original, modify_part, obj_len,
                   modify_part_len, upload_id, end, client, log>>

\* variant: the copy is started and the loop goes on without awaiting it
SendUploadPartCopyNoAwait(p) ==
    /\ pc[p] = "loop"
    /\ offset[p] < obj_len[p]
    /\ offset[p] # modify_part[p].index
    /\ LET e  == CopyEnd(offset[p], obj_len[p], modify_part[p].index)
           rg == CopySourceRange(offset[p], e)
       IN  /\ end' = [end EXCEPT ![p] = e]
           /\ offset' = [offset EXCEPT ![p] = e]
           /\ inflight' = [inflight EXCEPT ![p] = @ \cup
                  {Req("UploadPartCopy", upload_id[p], part_num[p], rg[1], rg[2],
                       <<>>, <<>>)}]
           /\ log' = [log EXCEPT ![p] = Append(@,
                  Entry("UploadPartCopy", part_num[p], offset[p], e, <<>>))]
    /\ part_num' = [part_num EXCEPT ![p] = @ + 1]
    /\ etags' = [etags EXCEPT ![p] = Append(@, ETag(upload_id[p], part_num[p]))]
    /\ UNCHANGED <<buildVars, storeVars, pc, result, modify_part, obj_len,
                   modify_part_len, upload_id, client, answers>>

\* while offset < obj_len, branch offset != modify_part.index: the end of the
\* copied span, upload_part_copy() of the same key with that byte range
SendUploadPartCopy(p) ==
    /\ pc[p] = "loop"
    /\ offset[p] < obj_len[p]
    /\ offset[p] # modify_part[p].index
    /\ LET e  == CopyEnd(offset[p], obj_len[p], modify_part[p].index)
           rg == CopySourceRange(offset[p], e)
       IN  /\ end' = [end EXCEPT ![p] = e]
           /\ inflight' = [inflight EXCEPT ![p] = @ \cup
                  {Req("UploadPartCopy", upload_id[p], part_num[p], rg[1], rg[2],
                       <<>>, <<>>)}]
           /\ log' = [log EXCEPT ![p] = Append(@,
                  Entry("UploadPartCopy", part_num[p], offset[p], e, <<>>))]
    /\ pc' = [pc EXCEPT ![p] = "copy_wait"]
    /\ UNCHANGED <<buildVars, storeVars, result, modify_part, obj_len,
                   modify_part_len, upload_id, part_num, offset, etags, client,
                   answers>>

\* variant: a copy answered without a tag is skipped instead of ending the call
RecvUploadPartCopyTagSkipped(p) ==
    /\ pc[p] = "copy_wait"
    /\ \E rq \in inflight[p] :
       \E out \in IF rq.first <= rq.last /\ rq.last < ContentLen(object)
                  THEN CopyOutcomes ELSE {"err"} :
           /\ rq.op = "UploadPartCopy"
           /\ inflight' = [inflight EXCEPT ![p] = @ \ {rq}]
           /\ answers' = [answers EXCEPT ![p] = Append(@, out)]
           /\ IF out = "err" THEN
                  /\ Return(p, "StoreRequestFailed")
                  /\ UNCHANGED <<uploads, etags, offset, part_num>>
              ELSE
                  /\ uploads' = [uploads EXCEPT ![rq.upload_id].parts =
                         (rq.part_number :>
                              [e_tag |-> ETag(rq.upload_id, rq.part_number),
                               data |-> Slice(object, rq.first, rq.last + 1)]) @@ @]
                  /\ etags' = [etags EXCEPT ![p] =
                         IF out = "ok"
                         THEN Append(@, ETag(rq.upload_id, rq.part_number))
                         ELSE @]
                  /\ offset' = [offset EXCEPT ![p] = end[p]]
                  /\ part_num' = [part_num EXCEPT ![p] = @ + 1]
                  /\ pc' = [pc EXCEPT ![p] = "loop"]
                  /\ UNCHANGED result
    /\ UNCHANGED <<buildVars, object, original, modify_part, obj_len,
                   modify_part_len, upload_id, end, client, log>>

\* .await?.copy_part_result.ok_or_else(..)?.e_tag.ok_or_else(..)?,
\* etags.push(etag), offset = end, part_num += 1.  The store copies the bytes
\* first..last, both inclusive, of the object now at the key.
RecvUploadPartCopy(p) ==
    /\ pc[p] = "copy_wait"
    /\ \E rq \in inflight[p] :
       \E out \in IF rq.first <= rq.last /\ rq.last < ContentLen(object)
                  THEN CopyOutcomes ELSE {"err"} :
           /\ rq.op = "UploadPartCopy"
           /\ inflight' = [inflight EXCEPT ![p] = @ \ {rq}]
           /\ answers' = [answers EXCEPT ![p] = Append(@, out)]
           /\ IF out = "err" THEN
                  /\ Return(p, "StoreRequestFailed")
                  /\ UNCHANGED <<uploads, etags, offset, part_num>>
              ELSE
                  /\ uploads' = [uploads EXCEPT ![rq.upload_id].parts =
                         (rq.part_number :>
                              [e_tag |-> ETag(rq.upload_id, rq.part_number),
                               data |-> Slice(object, rq.first, rq.last + 1)]) @@ @]
                  /\ IF out = "no_result" THEN
                         /\ Return(p, "MissingCopyPartResult")
                         /\ UNCHANGED <<etags, offset, part_num>>
                     ELSE IF out = "none" THEN
                         /\ Return(p, "MissingETag")
                         /\ UNCHANGED <<etags, offset, part_num>>
                     ELSE
                         /\ etags' = [etags EXCEPT
                                ![p] = Append(@, ETag(rq.upload_id, rq.part_number))]
                         /\ offset' = [offset EXCEPT ![p] = end[p]]
                         /\ part_num' = [part_num EXCEPT ![p] = @ + 1]
                         /\ pc' = [pc EXCEPT ![p] = "loop"]
                         /\ UNCHANGED result
    /\ UNCHANGED <<buildVars, object, original, modify_part, obj_len,
                   modify_part_len, upload_id, end, client, log>>

\* the loop is left (offset >= obj_len): the parts are numbered by position
\* and complete_multipart_upload().send() is issued
SendCompleteMultipartUpload(p) ==
    /\ pc[p] = "loop"
    /\ ~(offset[p] < obj_len[p])
    /\ LET ps == CompletedParts(etags[p])
       IN  /\ inflight' = [inflight EXCEPT ![p] = @ \cup
                  {Req("CompleteMultipartUpload", upload_id[p], 0, 0, 0, <<>>, ps)}]
           /\ log' = [log EXCEPT ![p] = Append(@,
                  Entry("CompleteMultipartUpload", 0, 0, 0, ps))]
    /\ pc' = [pc EXCEPT ![p] = "complete_wait"]
    /\ UNCHANGED <<buildVars, storeVars, result, localVars, answers>>

\* variant: a field of the completion's answer is required after the await,
\* as is done with the answers of the part operations
RecvCompleteMultipartUploadNeedsField(p) ==
    /\ pc[p] = "complete_wait"
    /\ \E rq \in inflight[p], out \in Outcomes :
           /\ rq.op = "CompleteMultipartUpload"
           /\ inflight' = [inflight EXCEPT ![p] = @ \ {rq}]
           /\ answers' = [answers EXCEPT ![p] = Append(@, out)]
           /\ IF out = "err" \/ ~ValidCompletion(uploads[rq.upload_id], rq.parts) THEN
                  /\ Return(p, "StoreRequestFailed")
                  /\ UNCHANGED <<object, uploads>>
              ELSE
                  /\ object' = Norm(Assemble(uploads[rq.upload_id], rq.parts))
                  /\ uploads' = [uploads EXCEPT ![rq.upload_id].state = "completed"]
                  /\ Return(p, IF out = "none" THEN "MissingETag" ELSE "Ok")
    /\ UNCHANGED <<buildVars, original, localVars, log>>

\* .await?, Ok(()).  On success the store replaces the object at the key by
\* the listed parts in one step.
RecvCompleteMultipartUpload(p) ==
    /\ pc[p] = "complete_wait"
    /\ \E rq \in inflight[p] :
       \E out \in IF ValidCompletion(uploads[rq.upload_id], rq.parts)
                  THEN {"ok", "err"} ELSE {"err"} :
           /\ rq.op = "CompleteMultipartUpload"
           /\ inflight' = [inflight EXCEPT ![p] = @ \ {rq}]
           /\ answers' = [answers EXCEPT ![p] = Append(@, out)]
           /\ IF out = "err" THEN
                  /\ Return(p, "StoreRequestFailed")
                  /\ UNCHANGED <<object, uploads>>
              ELSE
                  /\ object' = Norm(Assemble(uploads[rq.upload_id], rq.parts))
                  /\ uploads' = [uploads EXCEPT ![rq.upload_id].state = "completed"]
                  /\ Return(p, "Ok")
    /\ UNCHANGED <<buildVars, original, localVars, log>>

Step(p) ==
    \/ GetOrTryInit(p)
    \/ SendGetObject(p)
    \/ RecvGetObject(p)
    \/ SendCreateMultipartUpload(p)
    \/ RecvCreateMultipartUpload(p)
    \/ SendUploadPart(p)
    \/ RecvUploadPart(p)
    \/ SendUploadPartCopy(p)
    \/ RecvUploadPartCopy(p)
    \/ SendCompleteMultipartUpload(p)
    \/ RecvCompleteMultipartUpload(p)

Next == \E p \in Procs : Step(p)

Spec == Init /\ [][Next]_vars

\* ------------------------------------------------------------------------
\* Two calls of modify on the same key
\* ------------------------------------------------------------------------
\* <<object length, index 1, payload length 1, index 2, payload length 2>>:
\* call 1 edits the first bytes of the object and call 2 its last bytes
PairInputs ==
    {<<l, 0, MaxDelta, l - MaxDelta, MaxDelta>> :
         l \in {2 * MaxDelta, PART_SIZE + MaxDelta, 2 * PART_SIZE}}

\* two threads call modify on the same key, each with its own Part
InitPair ==
    \E in \in PairInputs, oc \in BOOLEAN :
        /\ CLIENT = "unset"
        /\ loads = <<>>
        /\ overflow_checks = oc
        /\ object = Bytes("orig", in[1])
        /\ original = Bytes("orig", in[1])
        /\ uploads = <<>>
        /\ pc = [p \in Procs |-> "call"]
        /\ result = [p \in Procs |-> "none"]
        /\ modify_part = [p \in Procs |->
               IF p = 1 THEN [index |-> in[2], data |-> Some(in[3])]
               ELSE [index |-> in[4], data |-> Some(in[5])]]
        /\ obj_len = [p \in Procs |-> 0]
        /\ modify_part_len = [p \in Procs |-> 0]
        /\ upload_id = [p \in Procs |-> 0]
        /\ part_num = [p \in Procs |-> 1]
        /\ offset = [p \in Procs |-> 0]
        /\ end = [p \in Procs |-> 0]
        /\ etags = [p \in Procs |-> <<>>]
        /\ inflight = [p \in Procs |-> {}]
        /\ log = [p \in Procs |-> <<>>]
        /\ answers = [p \in Procs |-> <<>>]
        /\ client = [p \in Procs |-> "unset"]

SpecPair == InitPair /\ [][Next]_vars

\* ------------------------------------------------------------------------
\* Vocabulary of the properties (call 1)
\* ------------------------------------------------------------------------
PartOps == {"UploadPart", "UploadPartCopy"}
IsPartOp(en) == en.op \in PartOps
IsCopy(en) == en.op = "UploadPartCopy"
IsUpload(en) == en.op = "UploadPart"
IsComplete(en) == en.op = "CompleteMultipartUpload"

\* the part operations call p has issued, in order
PartsOf(p) == SelectSeq(log[p], IsPartOp)
CopiesOf(p) == SelectSeq(log[p], IsCopy)
UploadsOf(p) == SelectSeq(log[p], IsUpload)

\* the loop of call p has been left and the completion issued
LoopLeft(p) == SelectSeq(log[p], IsComplete) # <<>>

TotalLength == ContentLen(original)
IndexOf(p) == modify_part[p].index
\* the length of the payload handed to call p
DataLenOf(p) ==
    IF modify_part[p].data.is_some THEN modify_part[p].data.len
    ELSE modify_part_len[p]

\* 0 <= offset and offset + length <= totalLength, as numbers
ValidWindow(p) ==
    /\ IndexOf(p) >= 0
    /\ ~AddOverflows(IndexOf(p), DataLenOf(p))
    /\ IndexOf(p) + DataLenOf(p) <= TotalLength

\* original[0:offset] + payload + original[offset+len:]
Edited(p) ==
    Norm(Slice(original, 0, IndexOf(p))
           \o Bytes(DataSrc(p), DataLenOf(p))
           \o Slice(original, IndexOf(p) + DataLenOf(p), TotalLength))

\* ------------------------------------------------------------------------
\* Properties
\* ------------------------------------------------------------------------
\* C1 (round trip): when modify returns Ok for a valid edit window, the
\* object the completed upload assembled has the original length and equals
\* original[0:offset] + payload + original[offset+len:].
RoundTrip ==
    (result[1] = "Ok" /\ ValidWindow(1)) =>
        /\ ContentLen(object) = TotalLength
        /\ object = Edited(1)

\* a successful edit strictly inside an object, with bytes copied on both sides
RoundTripWitness ==
    /\ result[1] = "Ok"
    /\ ValidWindow(1)
    /\ IndexOf(1) > 0
    /\ DataLenOf(1) > 0
    /\ IndexOf(1) + DataLenOf(1) < TotalLength
    /\ Len(object) = 3

MutationOps == {"CreateMultipartUpload", "UploadPart", "UploadPartCopy",
                "CompleteMultipartUpload"}

\* offset + len(payload) > totalLength, as numbers
InvalidWindow(p) ==
    \/ AddOverflows(IndexOf(p), DataLenOf(p))
    \/ IndexOf(p) + DataLenOf(p) > TotalLength

\* C3 (single edit segment): a call with a valid window, empty payloads
\* included, that returns Ok has issued exactly one uploadPart, whose body is
\* the whole payload and whose range is [offset, offset+length).
SingleEditSegment ==
    (ValidWindow(1) /\ result[1] = "Ok") =>
        LET us == UploadsOf(1)
        IN  /\ Len(us) = 1
            /\ us[1].body = Bytes(DataSrc(1), DataLenOf(1))
            /\ us[1].start = IndexOf(1)
            /\ us[1].end = IndexOf(1) + DataLenOf(1)

\* C4 (rejection): when offset + len(payload) > totalLength the call issues
\* no createMultipartUpload, uploadPart, uploadPartCopy or
\* completeMultipartUpload and does not return Ok.
Rejection ==
    InvalidWindow(1) =>
        /\ \A i \in 1..Len(log[1]) : log[1][i].op \notin MutationOps
        /\ result[1] # "Ok"

\* C5 (atomicity): as long as modify has not returned Ok, and whenever it has
\* returned an error or panicked, the object at the key is the original
\* object and no upload is completed; it returns Ok exactly when its upload
\* was completed, and for a valid window the object is then the fully edited
\* object.
Atomicity ==
    /\ result[1] # "Ok" =>
           /\ object = original
           /\ \A u \in 1..Len(uploads) : uploads[u].state = "open"
    /\ result[1] = "Ok" =>
           /\ upload_id[1] \in 1..Len(uploads)
           /\ uploads[upload_id[1]].state = "completed"
    /\ (result[1] = "Ok" /\ ValidWindow(1)) => object = Edited(1)

\* the completion itself failed after parts had been stored under the upload
AtomicityWitness ==
    /\ result[1] = "StoreRequestFailed"
    /\ LoopLeft(1)
    /\ ValidWindow(1)
    /\ DataLenOf(1) > 0
    /\ Len(PartsOf(1)) >= 2
    /\ object = original

\* C6 (part-size ceiling): every uploadPartCopy issued covers at most
\* PART_SIZE bytes.
PartSizeCeiling ==
    \A i \in 1..Len(CopiesOf(1)) :
        CopiesOf(1)[i].end - CopiesOf(1)[i].start <= PART_SIZE

\* a copy of exactly PART_SIZE bytes followed by a further part
PartSizeCeilingWitness ==
    /\ ValidWindow(1)
    /\ Len(PartsOf(1)) >= 2
    /\ IsCopy(PartsOf(1)[1])
    /\ PartsOf(1)[1].end - PartsOf(1)[1].start = PART_SIZE

\* C7 (boundary alignment): for a valid window no copy range contains a byte
\* of the window or has the offset strictly inside it, and once the loop is
\* left some iteration has started with the cursor at the offset.
BoundaryAlignment ==
    ValidWindow(1) =>
        /\ \A i \in 1..Len(CopiesOf(1)) :
               LET c == CopiesOf(1)[i]
               IN  /\ ~(c.start < IndexOf(1) /\ IndexOf(1) < c.end)
                   /\ \/ c.end <= IndexOf(1)
                      \/ IndexOf(1) + DataLenOf(1) <= c.start
                      \/ DataLenOf(1) = 0
        /\ LoopLeft(1) =>
               \E i \in 1..Len(PartsOf(1)) :
                   /\ PartsOf(1)[i].start = IndexOf(1)
                   /\ IsUpload(PartsOf(1)[i])

\* <<operation, part number, start, end>> of the parts issued, in order
PlanOf(p) ==
    [i \in 1..Len(PartsOf(p)) |->
        <<PartsOf(p)[i].op, PartsOf(p)[i].part_number,
          PartsOf(p)[i].start, PartsOf(p)[i].end>>]

\* totalLength = 3000000000, offset = 1500000000, length = 10 bytes
ScenarioCall ==
    /\ TotalLength = 1500000000
    /\ IndexOf(1) = 750000000
    /\ DataLenOf(1) = 5

\* C8 as stated (scenario plan): the parts issued are copy [0,1073741824),
\* copy [1073741824,1500000000), upload [1500000000,1500000010),
\* copy [1500000010,2147483648), copy [2147483648,3000000000), numbered 1..5
\* (positions in bytes; the model counts in units of two bytes).
ScenarioPlanAsStated ==
    (ScenarioCall /\ LoopLeft(1)) =>
        PlanOf(1) = << <<"UploadPartCopy", 1, 0, 536870912>>,
                       <<"UploadPartCopy", 2, 536870912, 750000000>>,
                       <<"UploadPart", 3, 750000000, 750000005>>,
                       <<"UploadPartCopy", 4, 750000005, 1073741824>>,
                       <<"UploadPartCopy", 5, 1073741824, 1500000000>> >>

\* C8 as amended (scenario plan): the parts issued are copy [0,1073741824),
\* copy [1073741824,1500000000), upload [1500000000,1500000010),
\* copy [1500000010,2573741834), copy [2573741834,3000000000), numbered 1..5:
\* the copy after the window ends PART_SIZE after the window's end.
ScenarioPlan ==
    (ScenarioCall /\ LoopLeft(1)) =>
        PlanOf(1) = << <<"UploadPartCopy", 1, 0, 536870912>>,
                       <<"UploadPartCopy", 2, 536870912, 750000000>>,
                       <<"UploadPart", 3, 750000000, 750000005>>,
                       <<"UploadPartCopy", 4, 750000005, 1286870917>>,
                       <<"UploadPartCopy", 5, 1286870917, 1500000000>> >>

\* the scenario's call has returned Ok
ScenarioPlanWitness ==
    /\ ScenarioCall
    /\ result[1] = "Ok"
    /\ Len(PartsOf(1)) = 5

\* C9 (no zero-length segment): for a valid window every part operation
\* issued covers a non-empty range, and when offset + length = totalLength
\* the upload is the last part issued before the completion.
NoZeroLengthSegment ==
    ValidWindow(1) =>
        /\ \A i \in 1..Len(PartsOf(1)) : PartsOf(1)[i].start < PartsOf(1)[i].end
        /\ (LoopLeft(1) /\ IndexOf(1) + DataLenOf(1) = TotalLength) =>
               /\ PartsOf(1) # <<>>
               /\ IsUpload(PartsOf(1)[Len(PartsOf(1))])

\* the part lists of the completions call p has issued
CompletionsOf(p) == SelectSeq(log[p], IsComplete)

\* C10 (whole-object edit): with offset = 0 and length = totalLength > 0 the
\* only part operation issued is one uploadPart numbered 1 spanning
\* [0, totalLength), and the completion lists exactly that one part.
WholeObjectEdit ==
    (ValidWindow(1) /\ IndexOf(1) = 0 /\ DataLenOf(1) = TotalLength /\ TotalLength > 0) =>
        /\ Len(PartsOf(1)) <= 1
        /\ \A i \in 1..Len(PartsOf(1)) :
               PlanOf(1)[i] = <<"UploadPart", 1, 0, TotalLength>>
        /\ LoopLeft(1) =>
               /\ Len(PartsOf(1)) = 1
               /\ Len(CompletionsOf(1)) = 1
               /\ CompletionsOf(1)[1].body =
                      <<[part_number |-> 1, e_tag |-> ETag(upload_id[1], 1)]>>

\* the 5-byte scenario: offset 0, length 5, totalLength 5, returned Ok
WholeObjectEditWitness ==
    /\ TotalLength = 5
    /\ IndexOf(1) = 0
    /\ DataLenOf(1) = 5
    /\ result[1] = "Ok"
    /\ object = Bytes(DataSrc(1), 5)

\* the load outcomes equal to o
LoadsWith(o) == {i \in 1..Len(loads) : loads[i] = o}

\* C11 (client single initialization): over two calls of modify, in sequence
\* or interleaved, the cell is written at most once and only by a load that
\* succeeded; a failed load leaves the cell empty, returns an error before
\* any store call, and the next call loads again; once the cell is set no
\* load happens and every call works with the cell's one value.
ClientSingleInit ==
    /\ Cardinality(LoadsWith("ok")) <= 1
    /\ CLIENT = "unset" <=> LoadsWith("ok") = {}
    /\ CLIENT # "unset" => loads[Len(loads)] = "ok"
    /\ Cardinality(LoadsWith("failed"))
           = Cardinality({p \in Procs : result[p] = "ConfigLoad"})
    /\ \A p \in Procs :
           /\ result[p] = "ConfigLoad" => log[p] = <<>> /\ client[p] = "unset"
           /\ (pc[p] # "call" /\ result[p] # "ConfigLoad") =>
                  CLIENT # "unset" /\ client[p] = CLIENT
           /\ log[p] # <<>> => client[p] = CLIENT

\* the first call's load failed, the second call loaded again and went on to
\* the store with the client it stored
ClientSingleInitWitness ==
    /\ loads = <<"failed", "ok">>
    /\ result[1] = "ConfigLoad"
    /\ client[2] = CLIENT
    /\ log[2] # <<>>

\* the error modify returns for an answer of a part operation that is not
\* a success with its tag
ErrorOf(out) ==
    IF out = "err" THEN "StoreRequestFailed"
    ELSE IF out = "none" THEN "MissingETag"
    ELSE "MissingCopyPartResult"

\* the positions of the log whose part operation failed or came back
\* without its tag
FailedParts(p) ==
    {i \in 1..Len(answers[p]) : IsPartOp(log[p][i]) /\ answers[p][i] # "ok"}

\* C12 (first part failure stops everything): a part operation that fails
\* or is answered without its tag is the last store call of the call;
\* modify has returned that error, nothing is in flight, no completion was
\* issued and the upload is still open.
FirstPartFailureStops ==
    \A i \in FailedParts(1) :
        /\ i = Len(log[1])
        /\ pc[1] = "returned"
        /\ result[1] = ErrorOf(answers[1][i])
        /\ inflight[1] = {}
        /\ ~LoopLeft(1)
        /\ uploads[upload_id[1]].state = "open"

\* the third part operation was answered without a tag after two parts had
\* been stored
FirstPartFailureStopsWitness ==
    /\ FailedParts(1) # {}
    /\ Len(PartsOf(1)) = 3
    /\ result[1] \in {"MissingETag", "MissingCopyPartResult"}
    /\ uploads[upload_id[1]].state = "open"

\* C13 (completion numbering): a completion issued after N part operations
\* lists N parts numbered 1..N in order, and the tag at position i is the tag
\* the store returned for the part operation issued with part number i.
CompletionNumbering ==
    LoopLeft(1) =>
        LET ps == CompletionsOf(1)[1].body
            up == uploads[upload_id[1]]
        IN  /\ Len(ps) = Len(PartsOf(1))
            /\ \A i \in 1..Len(ps) :
                   /\ ps[i].part_number = i
                   /\ PartsOf(1)[i].part_number = i
                   /\ i \in DOMAIN up.parts
                   /\ ps[i].e_tag = up.parts[i].e_tag

\* a completion of three or more parts that the store accepted
CompletionNumberingWitness ==
    /\ LoopLeft(1)
    /\ Len(PartsOf(1)) >= 3
    /\ result[1] = "Ok"

\* C14 (sequential part execution): part operations are issued in segment
\* order with part numbers 1, 2, 3, ...; every request but the one in flight
\* has been answered, so at most one request is in flight.
SequentialParts ==
    /\ \A i \in 1..Len(PartsOf(1)) : PartsOf(1)[i].part_number = i
    /\ \A i \in 1..(Len(PartsOf(1)) - 1) :
           PartsOf(1)[i].start <= PartsOf(1)[i + 1].start
    /\ Cardinality(inflight[1]) <= 1
    /\ Len(log[1]) - Len(answers[1]) = Cardinality(inflight[1])

\* the second part operation is in flight, the first has been answered
SequentialPartsWitness ==
    /\ Len(PartsOf(1)) = 2
    /\ \E rq \in inflight[1] : rq.op \in PartOps /\ rq.part_number = 2
    /\ Len(etags[1]) = 1

\* C15 (lifecycle order): the store calls of a call are the length lookup,
\* then one createMultipartUpload, then the part operations, then at most
\* one completeMultipartUpload; part operations come only after the upload
\* id was obtained, and the completion only after every part operation has
\* returned its tag and the cursor equals totalLength.
LifecycleOrder ==
    /\ \A i \in 1..Len(log[1]) :
           /\ log[1][i].op = "GetObject" <=> i = 1
           /\ log[1][i].op = "CreateMultipartUpload" <=> i = 2
           /\ IsPartOp(log[1][i]) =>
                  /\ i > 2
                  /\ answers[1][2] = "ok"
                  /\ upload_id[1] \in 1..Len(uploads)
           /\ IsComplete(log[1][i]) => i = Len(log[1]) /\ i > 2
    /\ LoopLeft(1) =>
           /\ offset[1] = TotalLength
           /\ Len(etags[1]) = Len(PartsOf(1))
           /\ FailedParts(1) = {}
           /\ \A i \in 3..(Len(log[1]) - 1) : answers[1][i] = "ok"

\* a whole call: lookup, creation, three part operations, completion, Ok
LifecycleOrderWitness ==
    /\ result[1] = "Ok"
    /\ Len(log[1]) = 6
    /\ Len(PartsOf(1)) = 3

\* every store call of call p so far was answered with success
AllAnswersOk(p) == \A i \in 1..Len(answers[p]) : answers[p][i] = "ok"

\* C16 (termination of the loop): for a valid window, empty payloads
\* included, and store calls that all succeed, every iteration moves the
\* cursor forward (each part's range ends after it starts), the cursor never
\* passes totalLength and the call does not abort inside the loop.
LoopTerminates ==
    (ValidWindow(1) /\ AllAnswersOk(1)) =>
        /\ pc[1] # "panicked"
        /\ offset[1] <= TotalLength
        /\ \A i \in 1..Len(PartsOf(1)) : PartsOf(1)[i].start < PartsOf(1)[i].end

\* the bytes that result from writing n bytes of src at position i of c
Apply(c, i, src, n) ==
    Norm(Slice(c, 0, i) \o Bytes(src, n) \o Slice(c, i + n, ContentLen(c)))

\* the edit of call p applied to c
ApplyCall(c, p) == Apply(c, IndexOf(p), DataSrc(p), DataLenOf(p))

\* C17 (concurrent calls on one key): when two calls with disjoint windows
\* have both returned Ok, each completion lists only tags of the call's own
\* upload, and the object holds both payloads: it is the result of applying
\* the two edits one after the other.
ConcurrentEdits ==
    (result[1] = "Ok" /\ result[2] = "Ok") =>
        /\ \A p \in Procs : \A i \in 1..Len(CompletionsOf(p)[1].body) :
               CompletionsOf(p)[1].body[i].e_tag[1] = upload_id[p]
        /\ upload_id[1] # upload_id[2]
        /\ object \in {ApplyCall(ApplyCall(original, 1), 2),
                       ApplyCall(ApplyCall(original, 2), 1)}

\* C18 (success implies the payload was written): whatever the index,
\* negative indexes included, a call that has returned Ok has issued exactly
\* one uploadPart and its body is the caller's payload.
PayloadWritten ==
    result[1] = "Ok" =>
        /\ Len(UploadsOf(1)) = 1
        /\ UploadsOf(1)[1].body = Bytes(DataSrc(1), DataLenOf(1))

\* C19 (window check without wraparound): when index + len(payload) exceeds
\* totalLength as numbers, also when the machine sum wraps, a call whose
\* length lookup succeeded has returned the window error, and neither
\* createMultipartUpload nor a part operation was issued.
WindowCheckNoWrap ==
    InvalidWindow(1) =>
        /\ \A i \in 1..Len(log[1]) :
               log[1][i].op \notin {"CreateMultipartUpload", "UploadPart",
                                     "UploadPartCopy"}
        /\ (answers[1] # <<>> /\ answers[1][1] = "ok") =>
               pc[1] = "returned" /\ result[1] = "EnsureFailed"

====
